---- MODULE Spec2Model ----
(***************************************************************************)
(* The multi-agent control-flow engine of src/agent.py: the shared run     *)
(* state, the five role nodes, the routers and the graph that create_graph *)
(* assembles, driven by run_agent_system.  The language model is an input: *)
(* every node that invokes it draws its reply (or its failure) from a      *)
(* bounded set of reply shapes.                                            *)
(*                                                                         *)
(* Scores are floats in the source; here they are integers counting        *)
(* tenths (0.6 is 6, 0.7 is 7).                                            *)
(***************************************************************************)
EXTENDS Integers, Sequences, FiniteSets, TLC

\* ---------------------------------------------------------------- bounds
\* longest task list a model reply carries
MaxTasks == 2
\* orchestrator executions explored in one run: one more than the three
\* passes a run with two retries takes
MaxOrchRuns == 4

\* ------------------------------------------------------ program constants
\* "max_retries": 2 in the initial state
DefaultMaxRetries == 2
\* score < 0.6, in tenths
RetryThreshold == 6
\* review.get("score", 0.7) and the except branch, in tenths
DefaultScore == 7

\* ------------------------------------------------------------ the inputs
UserInputs == {"q1"}
\* text of a researcher or coder reply
ReplyTexts == {"out"}
\* scores a critic reply may carry, in tenths (1.5 is outside [0, 1])
ScoreValues == {3, 6, 9, 15}

\* The X-API-Key header of a request: absent, different from API_KEY, or
\* equal to it.
ApiKeys == {"missing", "wrong", "valid"}
\* the "query" field of the body; run_agent_system passes it on as user_input
Queries == {""} \cup UserInputs
\* values of a "max_retries" field in the body
RequestedRetries == {-1, 0, 1, 2, 10}

\* A POST /query request.  has_max_retries = FALSE is a body without the
\* field (max_retries is then unused).
Request(k, q) == [key |-> k, query |-> q, has_max_retries |-> FALSE, max_retries |-> 0]
RequestWithRetries(k, q, n) ==
    [key |-> k, query |-> q, has_max_retries |-> TRUE, max_retries |-> n]
Requests == {Request(k, q) : k \in ApiKeys, q \in Queries}
RetryRequests ==
    {RequestWithRetries("valid", q, n) : q \in UserInputs, n \in RequestedRetries}
        \cup {Request("valid", q) : q \in UserInputs}

\* the nodes create_graph adds
NodeNames == {"orchestrator", "researcher", "coder", "critic", "final"}
\* names a model may write into a task's "agent"; "other" is any string that
\* names no node
AgentNames == NodeNames \cup {"other"}

\* ------------------------------------------------- python values, encoded
\* A task entry of a plan.  has_agent = FALSE is a dict without the "agent"
\* key (agent is then unused).
TaskEntry(a, t) == [has_agent |-> TRUE, agent |-> a, task |-> t]
NoAgentEntry(t) == [has_agent |-> FALSE, agent |-> "", task |-> t]
TaskEntries == {TaskEntry(a, "t") : a \in AgentNames} \cup {NoAgentEntry("t")}

RECURSIVE SeqsUpTo(_, _)
SeqsUpTo(S, n) ==
    IF n = 0 THEN {<<>>}
    ELSE LET shorter == SeqsUpTo(S, n - 1)
         IN  shorter \cup {Append(s, x) : s \in {q \in shorter : Len(q) = n - 1}, x \in S}

\* Only the first task's agent is ever used as a node name (line 177); the
\* agents of later tasks are only compared with "researcher" and "coder"
\* (lines 188, 207, 219), so for them "other" stands for every other name.
LaterEntries ==
    {TaskEntry(a, "t") : a \in {"researcher", "coder", "other"}} \cup {NoAgentEntry("t")}
TaskLists ==
    {<<>>} \cup {<<f>> \o rest : f \in TaskEntries,
                                  rest \in SeqsUpTo(LaterEntries, MaxTasks - 1)}

\* A parsed JSON value held in "plan": py = "dict" with or without a "tasks"
\* key, or py = "list" for a JSON value that is not an object.
PlanDict(ts) == [py |-> "dict", has_tasks |-> TRUE, tasks |-> ts]
EmptyDict == [py |-> "dict", has_tasks |-> FALSE, tasks |-> <<>>]
JsonList == [py |-> "list", has_tasks |-> FALSE, tasks |-> <<>>]
PlanValues == {PlanDict(ts) : ts \in TaskLists} \cup {EmptyDict, JsonList}

\* plan.get("tasks", []) and plan.get("tasks"): the list, or nothing
plan_tasks(p) == IF p.has_tasks THEN p.tasks ELSE <<>>

\* A model reply: ok = FALSE is llm.invoke raising.  wrap is how the content
\* is fenced, json whether the inner text is valid JSON, value what it
\* parses to.
Wraps == {"raw", "json_fence", "bare_fence"}
LLMFailure == [ok |-> FALSE, wrap |-> "raw", json |-> FALSE, value |-> EmptyDict]
Prose == [ok |-> TRUE, wrap |-> "raw", json |-> FALSE, value |-> EmptyDict]
\* prose, bare or inside a fence
ProseIn(w) == [Prose EXCEPT !.wrap = w]
\* Unfenced replies carry every plan value; fenced ones the values with at
\* most one task, the fence being handled before the value is looked at.
ShortPlanValues == {v \in PlanValues : Len(v.tasks) <= 1}
OrchestratorReplies ==
    {[ok |-> TRUE, wrap |-> "raw", json |-> TRUE, value |-> v] : v \in PlanValues}
        \cup {[ok |-> TRUE, wrap |-> w, json |-> TRUE, value |-> v] :
                  w \in Wraps \ {"raw"}, v \in ShortPlanValues}
        \cup {ProseIn(w) : w \in Wraps} \cup {LLMFailure}

\* json.loads(content.strip()) succeeds on unfenced JSON text only
json_loads_ok(c) == c.wrap = "raw" /\ c.json

\* lines 164-167: the text between the fences, for either kind of fence
orchestrator_unwrap(c) ==
    IF c.wrap = "json_fence" THEN [c EXCEPT !.wrap = "raw"]
    ELSE IF c.wrap = "bare_fence" THEN [c EXCEPT !.wrap = "raw"]
    ELSE c

\* fallback_plan that hands the request to the coder
fallback_plan_coder(ui) == PlanDict(<<TaskEntry("coder", ui)>>)

\* line 171
fallback_plan(ui) == PlanDict(<<TaskEntry("researcher", ui)>>)

\* lines 162-171
parse_plan(c, ui) ==
    IF json_loads_ok(orchestrator_unwrap(c)) THEN c.value ELSE fallback_plan(ui)

\* ------------------------------------------------------------- the state
VARIABLES
    messages, user_input, plan, researcher_output, coder_output,
    critic_score, final_output, retry_count, max_retries, budget, next,
    \* the engine: the node to execute, and how the run stands
    node, status,
    \* the service: the request being handled and the response sent
    request, response,
    \* history, for the properties
    prev, orch_runs, ran, scores, reply

state_vars == <<messages, user_input, plan, researcher_output, coder_output,
                critic_score, final_output, retry_count, max_retries, budget, next>>
hist_vars == <<prev, orch_runs, ran, scores, reply>>
vars == <<state_vars, node, status, request, response, hist_vars>>

Msg(type, by) == [type |-> type, by |-> by]

\* no response sent yet
NoResponse == [code |-> 0]
\* HTTPException(status_code, ...) and FastAPI's validation error
ErrorResponse(code) == [code |-> code]
\* no model reply consumed yet
NoReply == [ok |-> TRUE, text |-> ""]

\* A request has arrived; the run state is the initial_state that
\* run_agent_system builds for its query, and the graph's entry point is the
\* orchestrator.
InitWith(req) ==
    /\ request = req
    /\ response = NoResponse
    /\ reply = NoReply
    /\ messages = <<>>
    /\ user_input = req.query
    /\ plan = EmptyDict
    /\ researcher_output = ""
    /\ coder_output = ""
    /\ critic_score = 0
    /\ final_output = <<>>
    /\ retry_count = 0
    /\ max_retries = DefaultMaxRetries
    /\ budget = [tokens |-> 0, calls |-> 0]
    /\ next = ""
    /\ node = "orchestrator"
    /\ status = "received"
    /\ prev = "START"
    /\ orch_runs = 0
    /\ ran = {}
    /\ scores = <<>>

Init == \E req \in Requests : InitWith(req)
\* requests of an authorised caller that carry a max_retries field
InitRetries == \E req \in RetryRequests : InitWith(req)

\* --------------------------------------------------------------- helpers
\* A left-to-right scan of the tasks for the first one whose agent is a, as
\* the for loops (lines 187-190, 218-221) and any() (line 207) do it:
\* t["agent"] raises KeyError on an entry without the key, unless an earlier
\* entry already ended the scan.
RECURSIVE find_agent(_, _, _)
find_agent(ts, a, i) ==
    IF i > Len(ts) THEN [found |-> FALSE, raised |-> FALSE, at |-> 0]
    ELSE IF ~ts[i].has_agent THEN [found |-> FALSE, raised |-> TRUE, at |-> i]
    ELSE IF ts[i].agent = a THEN [found |-> TRUE, raised |-> FALSE, at |-> i]
    ELSE find_agent(ts, a, i + 1)

\* line 176: the first task, or the default when there is none
first_task(p) ==
    IF Len(plan_tasks(p)) > 0 THEN plan_tasks(p)[1] ELSE TaskEntry("researcher", "")

\* has_coder that looks at the first task only
has_coder_first_only(p) ==
    first_task(p).has_agent /\ first_task(p).agent = "coder"

\* line 207
has_coder(p) == find_agent(plan_tasks(p), "coder", 1).found

\* lines 298-312: the routers
route_after_orchestrator(nxt) == nxt
route_after_researcher(nxt) == nxt
route_after_coder(nxt) == "critic"
route_after_critic(nxt) == nxt

\* lines 331-334: the path map of the critic's conditional edge
critic_path_map(r) == IF r = "end" THEN "final" ELSE "orchestrator"

\* ------------------------------------------------------- the critic reply
ReviewDict(s) == [py |-> "dict", has_score |-> TRUE, numeric |-> TRUE, score |-> s]
\* {"feedback": ...} without a score
NoScoreReview == [py |-> "dict", has_score |-> FALSE, numeric |-> FALSE, score |-> 0]
\* {"score": "good"}: float() raises
BadScoreReview == [py |-> "dict", has_score |-> TRUE, numeric |-> FALSE, score |-> 0]
\* a JSON value that is not an object: .get raises
ListReview == [py |-> "list", has_score |-> FALSE, numeric |-> FALSE, score |-> 0]
ReviewValues == {ReviewDict(s) : s \in ScoreValues} \cup {NoScoreReview, BadScoreReview, ListReview}

CriticFailure == [ok |-> FALSE, wrap |-> "raw", json |-> FALSE, value |-> ListReview]
CriticProse == [ok |-> TRUE, wrap |-> "raw", json |-> FALSE, value |-> ListReview]
CriticReplies ==
    {[ok |-> TRUE, wrap |-> w, json |-> TRUE, value |-> v] : w \in Wraps, v \in ReviewValues}
        \cup {CriticProse, CriticFailure}

\* lines 261-262: only a fence labelled json is stripped
critic_unwrap(c) == IF c.wrap = "json_fence" THEN [c EXCEPT !.wrap = "raw"] ELSE c

\* parse_score that keeps the initial critic_score 0.0 when the try block fails
parse_score_zero_default(c) ==
    IF /\ json_loads_ok(critic_unwrap(c))
       /\ c.value.py = "dict"
       /\ (c.value.has_score => c.value.numeric)
    THEN IF c.value.has_score THEN c.value.score ELSE DefaultScore
    ELSE 0

\* lines 259-266: any exception in the try block gives the default
parse_score(c) ==
    IF /\ json_loads_ok(critic_unwrap(c))
       /\ c.value.py = "dict"
       /\ (c.value.has_score => c.value.numeric)
    THEN IF c.value.has_score THEN c.value.score ELSE DefaultScore
    ELSE DefaultScore

\* critic_decision without the budget test
critic_decision_uncapped(score, rc, mr) ==
    IF score < RetryThreshold
    THEN [retry_count |-> rc + 1, next |-> "orchestrator"]
    ELSE [retry_count |-> rc, next |-> "end"]

\* critic_decision that retries without counting the retry
critic_decision_uncounted(score, rc, mr) ==
    IF score < RetryThreshold /\ rc < mr
    THEN [retry_count |-> rc, next |-> "orchestrator"]
    ELSE [retry_count |-> rc, next |-> "end"]

\* critic_decision with score <= 0.6 as the retry test
critic_decision_inclusive(score, rc, mr) ==
    IF score <= RetryThreshold /\ rc < mr
    THEN [retry_count |-> rc + 1, next |-> "orchestrator"]
    ELSE [retry_count |-> rc, next |-> "end"]

\* lines 271-276
critic_decision(score, rc, mr) ==
    IF score < RetryThreshold /\ rc < mr
    THEN [retry_count |-> rc + 1, next |-> "orchestrator"]
    ELSE [retry_count |-> rc, next |-> "end"]

\* researcher and coder replies
TextFailure == [ok |-> FALSE, text |-> ""]
TextReplies == {[ok |-> TRUE, text |-> t] : t \in ReplyTexts} \cup {TextFailure}

\* json.dumps(result): the JSON text of a record, a one-element sequence
\* holding the encoded record, so that the empty string is the empty sequence
json_dumps(r) == <<r>>
\* json.loads of such a text (app.py line 100)
json_loads(s) == s[1]


\* ------------------------------------------------------------ the engine
\* a Raise that swallows the exception and lets the node run again
Raise_retry(kind) ==
    /\ status' = "running"
    /\ node' = node
    /\ UNCHANGED response
    /\ UNCHANGED state_vars

\* A node raised: graph.invoke propagates the exception, nothing the node
\* computed is written back, no further node runs.
Raise(kind) ==
    /\ status' = kind
    /\ node' = "END"
    /\ response' = ErrorResponse(500)
    /\ UNCHANGED state_vars

\* The conditional edges of orchestrator and researcher have no path map:
\* the router's value is the name of the node to run.  A value that names no
\* node ends the run without the final node, either by an error of the
\* graph runtime or silently, depending on the runtime.
Goto(dest) ==
    IF dest \in NodeNames
    THEN node' = dest /\ status' = "running" /\ UNCHANGED response
    ELSE /\ node' = "END"
         /\ status' \in {"engine_error", "halted"}
         /\ response' = ErrorResponse(500)

Step(n) ==
    /\ status = "running"
    /\ node = n
    /\ prev' = n
    /\ UNCHANGED request

\* lines 151-180, then the edge of line 328
orchestrator_node ==
    /\ Step("orchestrator")
    /\ orch_runs < MaxOrchRuns
    /\ orch_runs' = orch_runs + 1
    /\ ran' = {}
    /\ UNCHANGED scores
    /\ \E r \in OrchestratorReplies :
          LET p == parse_plan(r, user_input) IN
          reply' = r /\
          IF ~r.ok THEN Raise("llm_error")
          ELSE IF p.py # "dict" THEN Raise("node_error")
          ELSE IF ~first_task(p).has_agent THEN Raise("node_error")
          ELSE /\ plan' = p
               /\ messages' = messages \o <<Msg("system", "orchestrator"),
                                             Msg("human", "orchestrator"),
                                             Msg("ai", "orchestrator")>>
               /\ next' = first_task(p).agent
               /\ Goto(route_after_orchestrator(next'))
               /\ UNCHANGED <<user_input, researcher_output, coder_output, critic_score,
                              final_output, retry_count, max_retries, budget>>

\* lines 182-211, then the edge of line 329
researcher_node ==
    /\ Step("researcher")
    /\ ran' = ran \cup {"researcher"}
    /\ UNCHANGED <<orch_runs, scores>>
    /\ \E r \in TextReplies :
          reply' = r /\
          IF find_agent(plan_tasks(plan), "researcher", 1).raised THEN Raise("node_error")
          ELSE IF ~r.ok THEN Raise("llm_error")
          ELSE IF find_agent(plan_tasks(plan), "coder", 1).raised THEN Raise("node_error")
          ELSE /\ researcher_output' = r.text
               /\ messages' = Append(messages, Msg("ai", "researcher"))
               /\ next' = IF has_coder(plan) THEN "coder" ELSE "critic"
               /\ Goto(route_after_researcher(next'))
               /\ UNCHANGED <<user_input, plan, coder_output, critic_score,
                              final_output, retry_count, max_retries, budget>>

\* lines 213-238, then the edge of line 330
coder_node ==
    /\ Step("coder")
    /\ ran' = ran \cup {"coder"}
    /\ UNCHANGED <<orch_runs, scores>>
    /\ \E r \in TextReplies :
          reply' = r /\
          IF find_agent(plan_tasks(plan), "coder", 1).raised THEN Raise("node_error")
          ELSE IF ~r.ok THEN Raise("llm_error")
          ELSE /\ coder_output' = r.text
               /\ messages' = Append(messages, Msg("ai", "coder"))
               /\ next' = "critic"
               /\ Goto(route_after_coder(next'))
               /\ UNCHANGED <<user_input, plan, researcher_output, critic_score,
                              final_output, retry_count, max_retries, budget>>

\* lines 240-279, then the edge of lines 331-334
critic_node ==
    /\ Step("critic")
    /\ ran' = ran \cup {"critic"}
    /\ UNCHANGED orch_runs
    /\ \E r \in CriticReplies :
          reply' = r /\
          IF ~r.ok THEN Raise("llm_error") /\ UNCHANGED scores
          ELSE LET score == parse_score(r)
                   d == critic_decision(score, retry_count, max_retries)
               IN  /\ critic_score' = score
                   /\ scores' = Append(scores, score)
                   /\ messages' = Append(messages, Msg("ai", "critic"))
                   /\ retry_count' = d.retry_count
                   /\ next' = d.next
                   /\ Goto(critic_path_map(route_after_critic(next')))
                   /\ UNCHANGED <<user_input, plan, researcher_output, coder_output,
                                  final_output, max_retries, budget>>

\* final_result that reports the default score instead of the critic's
final_result_default_score(ui, p, ro, co, cs, rc) ==
    [user_request |-> ui,
     plan |-> p,
     researcher_output |-> ro,
     coder_output |-> co,
     quality_score |-> DefaultScore,
     retry_attempts |-> rc]

\* lines 285-292: the record final_node assembles
final_result(ui, p, ro, co, cs, rc) ==
    [user_request |-> ui,
     plan |-> p,
     researcher_output |-> ro,
     coder_output |-> co,
     quality_score |-> cs,
     retry_attempts |-> rc]

\* app.py lines 100-110: the response built from the run's final_output
QueryResponse(fo) ==
    [code |-> 200,
     status |-> "success",
     user_request |-> json_loads(fo).user_request,
     plan |-> json_loads(fo).plan,
     researcher_output |-> json_loads(fo).researcher_output,
     coder_output |-> json_loads(fo).coder_output,
     quality_score |-> json_loads(fo).quality_score,
     retry_attempts |-> json_loads(fo).retry_attempts]

\* lines 281-295, then the edge to END of line 335; graph.invoke returns and
\* process_query answers (app.py lines 100-110)
final_node ==
    /\ Step("final")
    /\ UNCHANGED <<orch_runs, ran, scores, reply>>
    /\ final_output' = json_dumps(final_result(user_input, plan, researcher_output,
                                                coder_output, critic_score, retry_count))
    /\ node' = "END"
    /\ status' = "done"
    /\ response' = QueryResponse(final_output')
    /\ UNCHANGED <<messages, user_input, plan, researcher_output, coder_output,
                   critic_score, retry_count, max_retries, budget, next>>

\* verify_api_key that only tests that the header is present
verify_api_key_presence(k) == IF k = "missing" THEN 401 ELSE 0

\* app.py lines 37-49: 0 lets the request through
verify_api_key(k) ==
    IF k = "missing" THEN 401
    ELSE IF k # "valid" THEN 403
    ELSE 0

\* app.py lines 52-53: Field(..., min_length=1); other fields of the body are
\* not declared and are ignored
validate_request(req) == IF req.query = "" THEN 422 ELSE 0

\* app.py lines 88-98: the dependency verify_api_key, the validation of the
\* body, then the call of run_agent_system(request.query)
process_query ==
    /\ status = "received"
    /\ IF verify_api_key(request.key) # 0
       THEN status' = "rejected" /\ response' = ErrorResponse(verify_api_key(request.key))
       ELSE IF validate_request(request) # 0
       THEN status' = "rejected" /\ response' = ErrorResponse(validate_request(request))
       ELSE status' = "running" /\ UNCHANGED response
    /\ UNCHANGED <<state_vars, node, request, hist_vars>>

Next ==
    \/ process_query
    \/ orchestrator_node
    \/ researcher_node
    \/ coder_node
    \/ critic_node
    \/ final_node

Spec == Init /\ [][Next]_vars
SpecRetries == InitRetries /\ [][Next]_vars


\* ------------------------------------------------------------ properties
Low(sc) == sc < RetryThreshold
CriticRuns == Len(scores)
LastScore == scores[Len(scores)]
PlanAssigns(p, role) ==
    \E i \in DOMAIN plan_tasks(p) : plan_tasks(p)[i].has_agent /\ plan_tasks(p)[i].agent = role

\* C1: in every reachable state of a run, retry_count <= max_retries.
C1_RetryCountBounded == retry_count <= max_retries

\* the budget is spent and a further low score was not counted
C1_Witness ==
    /\ retry_count = max_retries
    /\ CriticRuns = max_retries + 1
    /\ Low(LastScore)

\* C2: a run in which no model invocation fails reaches the final node and
\* halts, within max_retries + 1 orchestrator executions: it never stops any
\* other way, and the orchestrator never executes more often than that.
C2_TerminatesWithinBudget ==
    /\ orch_runs <= max_retries + 1
    /\ (node = "END" /\ status # "llm_error" => status = "done")

\* the transitions of the documented state machine
DocumentedEdges ==
    {<<"START", "orchestrator">>,
     <<"orchestrator", "researcher">>, <<"orchestrator", "coder">>,
     <<"researcher", "coder">>, <<"researcher", "critic">>,
     <<"coder", "critic">>,
     <<"critic", "orchestrator">>, <<"critic", "final">>,
     <<"final", "END">>}

\* C3: the engine only ever moves along the documented edges, from the node
\* that executed last to the node that executes next.
C3_OnlyDocumentedEdges ==
    status \in {"running", "done"} => <<prev, node>> \in DocumentedEdges

\* C4: final_output is written exactly once, by the final node, only after
\* the critic has executed at least once; it is empty before and never
\* changes afterwards.
C4_FinalOutputOnce ==
    /\ [](final_output # <<>> => prev = "final" /\ CriticRuns >= 1)
    /\ [](status = "done" => final_output # <<>>)
    /\ [][final_output # <<>> => final_output' = final_output]_vars
    /\ [][final_output' # final_output => node = "final"]_vars

\* C5: at termination, a plan without a coder task means an empty
\* coder_output.
C5_NoCoderTaskNoCoderOutput ==
    status = "done" /\ ~PlanAssigns(plan, "coder") => coder_output = ""

\* C6: at termination, researcher and coder each executed in the last pass
\* exactly when the plan assigns that role a task.
C6_RolesRanIffAssigned ==
    status = "done" =>
        \A role \in {"researcher", "coder"} : (role \in ran) <=> PlanAssigns(plan, role)

\* C7: when the first critic evaluation scores >= 0.6, the run ends with
\* retry_count = 0 after one orchestrator execution and one critic
\* evaluation.
C7_GoodFirstScoreOnePass ==
    status = "done" /\ CriticRuns >= 1 /\ ~Low(scores[1]) =>
        /\ retry_count = 0
        /\ orch_runs = 1
        /\ CriticRuns = 1

\* C8: when every critic evaluation scores < 0.6, the run still ends with a
\* final record, after exactly max_retries + 1 evaluations, and the record
\* reports the low score and retry_attempts = max_retries; such a run stops
\* in no other way.
C8_AlwaysLowExhaustsBudget ==
    CriticRuns >= 1 /\ (\A i \in 1..CriticRuns : Low(scores[i])) =>
        /\ (node = "END" /\ status # "llm_error" => status = "done")
        /\ (status = "done" =>
               /\ CriticRuns = max_retries + 1
               /\ Low(json_loads(final_output).quality_score)
               /\ json_loads(final_output).retry_attempts = max_retries)

\* C9: for every k in 0..max_retries, when the first k critic evaluations
\* score < 0.6 and evaluation k+1 scores >= 0.6, the run goes from that
\* evaluation to the final node and ends, with retry_count = k.
C9_RetriesThenGood ==
    \A k \in 0..max_retries :
        (/\ CriticRuns = k + 1
         /\ \A i \in 1..k : Low(scores[i])
         /\ ~Low(scores[k + 1]))
        => /\ retry_count = k
           /\ \/ node = "final" /\ status = "running"
              \/ node = "END" /\ status = "done"
           /\ (status = "done" => json_loads(final_output).retry_attempts = k)

\* two low evaluations, then a good one: the run has ended on the third
C9_Witness ==
    /\ status = "done"
    /\ CriticRuns = 3
    /\ Low(scores[1]) /\ Low(scores[2]) /\ ~Low(scores[3])
    /\ retry_count = 2

\* C10: a critic evaluation with score < 0.6 and retry_count < max_retries
\* adds one to retry_count, sets next = "orchestrator" and hands over to the
\* orchestrator; every other evaluation leaves retry_count alone, sets
\* next = "end" and hands over to the final node.
C10_CriticDecision ==
    [][scores' # scores =>
         IF Low(critic_score') /\ retry_count < max_retries
         THEN retry_count' = retry_count + 1 /\ next' = "orchestrator" /\ node' = "orchestrator"
         ELSE retry_count' = retry_count /\ next' = "end" /\ node' = "final"]_vars

\* a score of exactly 0.6 with budget left has sent the run to the final node
C10_Witness ==
    /\ CriticRuns = 1
    /\ scores[1] = RetryThreshold
    /\ retry_count = 0
    /\ next = "end"
    /\ node = "final"


\* C11: a run stops short of a final record only when a model invocation
\* fails: no node raises and the graph never stops without final.
C11_OnlyModelFailureFails ==
    status \in {"received", "rejected", "running", "done", "llm_error"}

\* C12: when the orchestrator's reply is not JSON, bare or inside either
\* fence, the orchestrator stores the fallback plan, sets next = "researcher"
\* and the run goes on to the researcher.
C12_ProseGivesFallbackPlan ==
    prev = "orchestrator" /\ reply.ok /\ ~reply.json =>
        /\ plan = fallback_plan(user_input)
        /\ next = "researcher"
        /\ node = "researcher"
        /\ status = "running"

\* prose inside an unlabelled fence, on a retry
C12_Witness ==
    /\ prev = "orchestrator"
    /\ reply = ProseIn("bare_fence")
    /\ retry_count = 1
    /\ plan = fallback_plan(user_input)
    /\ node = "researcher"

\* C13: a critic reply that is not JSON, or whose JSON has no score key,
\* gives critic_score = 0.7 and never a retry: next = "end", retry_count
\* unchanged, the final node next.
C13_BadReviewGivesDefault ==
    [][scores' # scores /\ (~reply'.json \/ ~reply'.value.has_score) =>
          /\ critic_score' = DefaultScore
          /\ retry_count' = retry_count
          /\ next' = "end"
          /\ node' = "final"]_vars

\* a review without a score key, on the second pass with budget left
C13_Witness ==
    /\ prev = "critic"
    /\ reply.ok /\ reply.json /\ reply.value = NoScoreReview
    /\ CriticRuns = 2
    /\ retry_count = 1
    /\ critic_score = DefaultScore
    /\ node = "final"

\* C14: a failed model invocation ends the run as a failure on the spot: the
\* call is not retried, no node executes afterwards, no final_output is
\* produced and the caller gets an error.
C14_ModelFailureEndsRun ==
    /\ [](~reply.ok => /\ status = "llm_error"
                       /\ node = "END"
                       /\ final_output = <<>>
                       /\ response = ErrorResponse(500))
    /\ [][reply.ok]_vars

\* the coder's model call failed after a retry
C14_Witness ==
    /\ ~reply.ok
    /\ prev = "coder"
    /\ retry_count = 1
    /\ status = "llm_error"

\* the retry budget the caller asked for
RequestedBudget ==
    IF request.has_max_retries THEN request.max_retries ELSE DefaultMaxRetries

\* C15: a run started with max_retries = n by the caller (2 when omitted)
\* performs at most n retries.
C15_CallerBudgetRespected == RequestedBudget >= 0 => retry_count <= RequestedBudget

\* C16: once the critic has run, critic_score lies in [0.0, 1.0].
C16_ScoreInUnitInterval == CriticRuns >= 1 => critic_score \in 0..10

\* C17: the final record, and the response built from it, hold the run
\* state as it is when the final node runs; the score is the last critic
\* evaluation's.
C17_FinalRecordIsState ==
    status = "done" =>
        /\ json_loads(final_output).user_request = user_input
        /\ json_loads(final_output).plan = plan
        /\ json_loads(final_output).researcher_output = researcher_output
        /\ json_loads(final_output).coder_output = coder_output
        /\ json_loads(final_output).quality_score = critic_score
        /\ json_loads(final_output).retry_attempts = retry_count
        /\ (CriticRuns >= 1 => json_loads(final_output).quality_score = LastScore)
        /\ response.code = 200
        /\ response.quality_score = critic_score
        /\ response.retry_attempts = retry_count
        /\ response.plan = plan

\* a run of three passes with both workers has ended
C17_Witness ==
    /\ status = "done"
    /\ retry_count = 2
    /\ researcher_output = "out"
    /\ coder_output = "out"
    /\ critic_score = 9
    /\ json_loads(final_output).quality_score = 9

\* the last three messages are the two prompt messages of node n and the
\* model's reply to them
EndsWithExchange(n) ==
    /\ Len(messages) >= 3
    /\ SubSeq(messages, Len(messages) - 2, Len(messages))
           = <<Msg("system", n), Msg("human", n), Msg("ai", n)>>

\* C18: messages only grows at its end, and after each of orchestrator,
\* researcher, coder and critic has invoked the model and returned, it holds
\* that node's prompt messages and the reply.
C18_MessagesLogEverything ==
    /\ [][/\ Len(messages') >= Len(messages)
          /\ SubSeq(messages', 1, Len(messages)) = messages]_vars
    /\ [](/\ prev \in {"orchestrator", "researcher", "coder", "critic"}
          /\ reply.ok
          /\ status # "node_error"
          => EndsWithExchange(prev))

\* C19: a critic reply holding JSON with a numeric score, raw or inside
\* either kind of fence, gives that score.
C19_FencedScoreExtracted ==
    (/\ prev = "critic"
     /\ reply.ok /\ reply.json
     /\ reply.value.py = "dict" /\ reply.value.has_score /\ reply.value.numeric)
    => critic_score = reply.value.score

C21_EmptyQueryRejected ==
    request.query = "" =>
        /\ status \in {"received", "rejected"}
        /\ orch_runs = 0
        /\ (status = "rejected" => response = ErrorResponse(422))

\* the max_retries values the tests expect to be refused
OutOfBoundsRetries == {-1, 10}

\* C22: a request whose max_retries is negative or too high is answered 422
\* and starts no run; one with max_retries = 2 is accepted.
C22_RetriesBoundsValidated ==
    /\ (request.has_max_retries /\ request.max_retries \in OutOfBoundsRetries =>
           /\ status \in {"received", "rejected"}
           /\ orch_runs = 0
           /\ (status = "rejected" => response = ErrorResponse(422)))
    /\ (request.has_max_retries /\ request.max_retries = 2 => status # "rejected")

\* C23: a researcher execution that returns sets next = "coder" when the
\* plan has a coder task at any position and "critic" otherwise, a coder
\* execution that returns sets next = "critic", the engine follows next, and
\* the researcher never executes after the coder within a pass.
C23_WorkerRouting ==
    /\ [][node = "researcher" /\ messages' # messages =>
            /\ next' = (IF PlanAssigns(plan, "coder") THEN "coder" ELSE "critic")
            /\ node' = next']_vars
    /\ [][node = "coder" /\ messages' # messages =>
            next' = "critic" /\ node' = "critic"]_vars
    /\ [](status = "running" /\ node = "researcher" => "coder" \notin ran)

\* the researcher has handed over to the coder for a coder task that is not
\* the plan's first task
C23_Witness ==
    /\ prev = "researcher"
    /\ status = "running"
    /\ Len(plan_tasks(plan)) = 2
    /\ plan_tasks(plan)[1].agent = "researcher"
    /\ plan_tasks(plan)[2].agent = "coder"
    /\ next = "coder"
    /\ node = "coder"

\* C24: a retry decision is followed by the orchestrator, which stores the
\* plan of its new reply; within a pass researcher and coder execute at most
\* once each, and the critic exactly once: it has executed since the last
\* orchestrator execution whenever the orchestrator executes again or the
\* final node executes.
C24_RetryIsFullRestart ==
    /\ [][scores' # scores /\ next' = "orchestrator" => node' = "orchestrator"]_vars
    /\ [][node = "orchestrator" /\ messages' # messages =>
            plan' = parse_plan(reply', user_input)]_vars
    /\ [][(status = "running" /\ prev' = node
               /\ node \in {"researcher", "coder", "critic"}) =>
            ~(node \in ran)]_vars
    /\ [][(status = "running" /\ prev' = node
               /\ (node = "final" \/ (node = "orchestrator" /\ orch_runs >= 1))) =>
            ("critic" \in ran)]_vars

\* C25: once a pass has started, the orchestrator has executed
\* retry_count + 1 times; only the critic changes retry_count, and it never
\* decreases.
C25_PassesMatchRetries ==
    /\ [](status = "running" /\ node \in {"researcher", "coder", "critic", "final"}
            => orch_runs = retry_count + 1)
    /\ [][retry_count' # retry_count => node = "critic"]_vars
    /\ [][retry_count' >= retry_count]_vars

\* C26: in every terminal state critic_score >= 0.6 or retry_count =
\* max_retries.
C26_LowScoreOnlyWhenExhausted ==
    status = "done" => critic_score >= RetryThreshold \/ retry_count = max_retries

====
